---- MODULE Spec2Model ----
(***************************************************************************)
(* Demand forecasting and restock planning of AIVENTORY's machine-learning *)
(* services:                                                               *)
(*   predict_product_arima.py    fit_arima_model, forecast_product_sales,  *)
(*                               calculate_restock_suggestion              *)
(*                               and the command-line entry point          *)
(*   arima_restock_prediction.py fit_arima_model, forecast_product         *)
(*   predict_all_products.py     predict_all_products                      *)
(*                                                                         *)
(* Numbers.  Python floats are modelled as exact rationals.  In the        *)
(* restock planner a demand figure x is held as the integer x * DemandUnit *)
(* (a numerator over the common denominator DemandUnit); the factors 1.5,  *)
(* 0.3 and 0.2 bring one more factor 10, so stock requirements are         *)
(* compared in units of 1 / (10 * DemandUnit).  In the forecasters a mean  *)
(* is the pair <<sum, count>>.  Binary rounding of floats is not modelled. *)
(*                                                                         *)
(* statsmodels (adfuller, ARIMA.fit, forecast) is the environment: the     *)
(* verdict of the stationarity test, the success and AIC of each fit and   *)
(* the values of a model's forecast are chosen nondeterministically.       *)
(***************************************************************************)
EXTENDS Integers, Sequences, FiniteSets

VARIABLES
    pc,               \* position of the running call
    forecast_result,  \* calculate_restock_suggestion: argument / forecasters: return value
    current_stock,    \* calculate_restock_suggestion: argument
    reorder_level,    \* calculate_restock_suggestion: argument
    lead_time_days,   \* calculate_restock_suggestion: argument (default 7)
    safety_days,      \* calculate_restock_suggestion: argument (default 14)
    restock_data,     \* calculate_restock_suggestion: return value
    impl,             \* which module's function runs: "single" is predict_product_arima.py,
                      \* "batch" is arima_restock_prediction.py
    ts,               \* fit_arima_model: the series being fitted (differenced in place)
    original_ts,      \* fit_arima_model: the series as passed in
    d,                \* fit_arima_model: differencing order
    param_combinations, \* fit_arima_model: the candidate orders, in iteration order
    idx,              \* fit_arima_model: number of candidates already tried
    best_aic,         \* fit_arima_model: <<>> is np.inf, <<a>> the AIC a
    best_model,       \* fit_arima_model: None or the best fitted model so far
    best_params,      \* fit_arima_model: None or the order of best_model
    fit_log,          \* history of the fits that succeeded: AIC value -> the index of the
                      \* first candidate fitted with it and the least such order (p, then q)
    fit_return,       \* fit_arima_model: return value
    adf_result,       \* history: what adfuller did in test_stationarity ("not_run" before)
    product_data,     \* forecast_product_sales: the product's rows [day, qty] of the CSV
    days_ahead,       \* forecast_product_sales / forecast_product: the horizon
    daily_sales,      \* forecast_product_sales: the gap-filled daily series
    sales_stats,      \* forecast_product_sales: total_sales, total_transactions,
                      \* total_days and max_daily (lines 107-111)
    monthly_sales,    \* forecast_product: the monthly series passed in
    forecast_call,    \* history: what model.forecast did ("not_called", "returned", "raised")
    argv,             \* __main__: the command-line arguments after the script name
    printed,          \* __main__: the objects printed on standard output, in order
    exit_status,      \* __main__: << >> while running, <<n>> once the process ended
    unique_products,  \* predict_all_products: the products of the CSV, in id order
    product_idx,      \* predict_all_products: number of products visited by the loop
    results,          \* predict_all_products: the stored output records
    successful,       \* predict_all_products: counter
    failed            \* predict_all_products: counter

vars == <<pc, forecast_result, current_stock, reorder_level, lead_time_days,
          safety_days, restock_data, impl, ts, original_ts, d, param_combinations,
          idx, best_aic, best_model, best_params, fit_log, fit_return, adf_result,
          product_data, days_ahead, daily_sales, sales_stats, monthly_sales, forecast_call,
          argv, printed, exit_status, unique_products, product_idx, results,
          successful, failed>>

forecasterVars == <<product_data, days_ahead, daily_sales, sales_stats, monthly_sales,
                    forecast_call>>

fitVars == <<impl, ts, original_ts, d, param_combinations, idx, best_aic, best_model,
             best_params, fit_log, fit_return, adf_result>>

restockVars == <<current_stock, reorder_level, lead_time_days, safety_days, restock_data>>

driverVars == <<argv, printed, exit_status, unique_products, product_idx, results,
                successful, failed>>

(***************************************************************************)
(* Bounds of the explored inputs.                                          *)
(***************************************************************************)
DemandUnit == 2       \* demand figures are multiples of 1 / DemandUnit
MaxDemand == 4        \* largest demand numerator (avg, max, std)
MaxStock == 6         \* densely explored stock levels 0..MaxStock
MaxReorder == 2       \* reorder levels 0..MaxReorder
MaxLead == 2          \* lead times 0..MaxLead, besides the default
MaxSafety == 3        \* safety windows 0..MaxSafety, besides the default
MaxAic == 2           \* a successful fit reports an AIC in 1..MaxAic
MaxRows == 4          \* a product has 0..MaxRows transaction rows
MaxFc == 1            \* a model's raw forecast values lie in -1..MaxFc

(***************************************************************************)
(* Python values and arithmetic.                                           *)
(***************************************************************************)
None == [tag |-> "None"]

Max(a, b) == IF a >= b THEN a ELSE b

Min(a, b) == IF a <= b THEN a ELSE b

\* np.ceil(n / k) for k > 0, n of either sign
CeilDiv(n, k) == IF n >= 0 THEN (n + k - 1) \div k ELSE -((-n) \div k)

\* int(n / k) for k > 0: truncation towards zero
TruncDiv(n, k) == IF n >= 0 THEN n \div k ELSE -((-n) \div k)

\* an Optional[int]: <<>> is None, <<n>> is the integer n
NoDays == << >>

Days(n) == <<n>>

\* Python truthiness of an Optional[int]: None and 0 are both falsy
Truthy(x) == x # NoDays /\ x[1] # 0

\* a rational is a pair <<numerator, denominator>> with denominator > 0
RatEq(x, y) == x[1] * y[2] = y[1] * x[2]

RatLess(x, y) == x[1] * y[2] < y[1] * x[2]

\* Python's max(a, b): b only when b > a
RatMax(x, y) == IF RatLess(x, y) THEN y ELSE x

RECURSIVE SumSeq(_)
SumSeq(s) == IF s = << >> THEN 0 ELSE Head(s) + SumSeq(Tail(s))

\* Series.mean()
Mean(s) == <<SumSeq(s), Len(s)>>

\* Series.tail(n)
TailOf(s, n) == SubSeq(s, Len(s) - n + 1, Len(s))

DefaultDaysAhead == 30

(***************************************************************************)
(* calculate_restock_suggestion (predict_product_arima.py)                 *)
(***************************************************************************)
DefaultLeadTimeDays == 7
DefaultSafetyDays == 14
ExtraBufferDays == 60
ReorderMultiple == 5
DepletionMargin == 3

\* one stock unit in the units requirements are compared in
StockUnit == 10 * DemandUnit

DaysUntilDepletion(avg, stock) ==
    IF avg > 0
    THEN IF stock > 0 THEN Days(CeilDiv(stock * DemandUnit, avg)) ELSE Days(0)
    ELSE NoDays

\* per-day variability buffer, in units of 1 / (10 * DemandUnit)
VariabilityBuffer(avg, std) ==
    IF std > 0 THEN Min(15 * std, 3 * avg) ELSE 2 * avg

RequiredStock_NoBuffer(avg, std, lead, safety) == 10 * avg * (lead + safety)

\* lines 219-229
RequiredStock(avg, std, lead, safety) ==
    10 * avg * (lead + safety) + VariabilityBuffer(avg, std) * (lead + safety)

MaxReasonableStock(maxd, reorder, lead, safety) ==
    Max(10 * maxd * (lead + safety + ExtraBufferDays), reorder * ReorderMultiple * StockUnit)

\* lines 237-242: the shortfall, capped at the overstock ceiling
CappedQuantity(required, ceiling, stock) ==
    LET suggested   == Max(0, CeilDiv(required - stock * StockUnit, StockUnit))
        max_restock == ceiling - stock * StockUnit
    IN  IF suggested * StockUnit > max_restock
        THEN Max(0, TruncDiv(max_restock, StockUnit))
        ELSE suggested

FlooredQuantity_NoFloor(q, reorder) == q

\* lines 245-246: never less than one reorder batch
FlooredQuantity(q, reorder) == IF q < reorder THEN reorder ELSE q

DepletionOverride_KeepsFloor(q, avg, stock, required, dud, reorder, lead) ==
    IF stock * StockUnit >= required /\ Truthy(dud) /\ dud[1] <= lead + DepletionMargin
    THEN Max(reorder, CeilDiv(avg * (lead + DepletionMargin), DemandUnit))
    ELSE q

\* lines 249-254: stock already covers the window
DepletionOverride(q, avg, stock, required, dud, reorder, lead) ==
    IF stock * StockUnit >= required
    THEN IF Truthy(dud) /\ dud[1] <= lead + DepletionMargin
         THEN Max(reorder, CeilDiv(avg * (lead + DepletionMargin), DemandUnit))
         ELSE 0
    ELSE q

\* line 270
UnderstockingRisk(dud, lead, safety) ==
    IF Truthy(dud) /\ dud[1] > lead + safety THEN "low"
    ELSE IF Truthy(dud) /\ dud[1] <= lead THEN "high"
    ELSE "medium"

CalculateRestockSuggestion(fr, stock, reorder, lead, safety) ==
    IF fr = None THEN None
    ELSE
    LET avg      == fr.avg_daily_demand
        maxd     == fr.max_daily_demand
        std      == fr.forecast_std
        dud      == DaysUntilDepletion(avg, stock)
        required == RequiredStock(avg, std, lead, safety)
        ceiling  == MaxReasonableStock(maxd, reorder, lead, safety)
        capped   == CappedQuantity(required, ceiling, stock)
        floored  == FlooredQuantity(capped, reorder)
        suggested == DepletionOverride(floored, avg, stock, required, dud, reorder, lead)
        optimal  == stock + suggested
    IN  [ tag                  |-> "restock",
          suggested_quantity   |-> suggested,
          days_until_stockout  |-> dud,
          daily_demand         |-> avg,
          max_daily_demand     |-> maxd,
          reorder_point        |-> CeilDiv(avg * (lead + safety), DemandUnit),
          safety_stock         |-> CeilDiv(avg * safety, DemandUnit),
          optimal_stock        |-> optimal,
          max_reasonable_stock |-> TruncDiv(ceiling, StockUnit),
          current_stock        |-> stock,
          overstocking_risk    |-> IF optimal * StockUnit <= ceiling THEN "low" ELSE "medium",
          understocking_risk   |-> UnderstockingRisk(dud, lead, safety) ]

\* the forecast statistics the planner reads; besides the dense range, one
\* average demand far above the smallest positive forecast_std
ForecastStats ==
    [ tag : {"stats"},
      avg_daily_demand : (0..MaxDemand) \cup {2 * MaxDemand},
      max_daily_demand : 0..MaxDemand,
      forecast_std : 0..(MaxDemand \div 2) ]

Windows ==
    ((0..MaxLead) \X (0..MaxSafety)) \cup {<<DefaultLeadTimeDays, DefaultSafetyDays>>}

StockLevels ==
    (0..MaxStock) \cup
    { DefaultLeadTimeDays, DefaultLeadTimeDays + 1,
      DefaultLeadTimeDays + DefaultSafetyDays, DefaultLeadTimeDays + DefaultSafetyDays + 1,
      2 * (DefaultLeadTimeDays + DefaultSafetyDays) + MaxDemand * (DefaultLeadTimeDays + DefaultSafetyDays) }

FitIdle ==
    /\ impl = "single"
    /\ ts = << >>
    /\ original_ts = << >>
    /\ d = 0
    /\ param_combinations = << >>
    /\ idx = 0
    /\ best_aic = << >>
    /\ best_model = None
    /\ best_params = None
    /\ fit_log = << >>
    /\ fit_return = None
    /\ adf_result = "not_run"

ForecasterIdle ==
    /\ product_data = << >>
    /\ days_ahead = DefaultDaysAhead
    /\ daily_sales = << >>
    /\ sales_stats = None
    /\ monthly_sales = << >>
    /\ forecast_call = "not_called"

DriverIdle ==
    /\ argv = << >>
    /\ printed = << >>
    /\ exit_status = << >>
    /\ unique_products = << >>
    /\ product_idx = 0
    /\ results = << >>
    /\ successful = 0
    /\ failed = 0

InitRestock ==
    /\ FitIdle
    /\ ForecasterIdle
    /\ DriverIdle
    /\ pc = "restock_call"
    /\ forecast_result \in ForecastStats
    /\ current_stock \in StockLevels
    /\ reorder_level \in 0..MaxReorder
    /\ \E w \in Windows : lead_time_days = w[1] /\ safety_days = w[2]
    /\ restock_data = None

RestockReturn ==
    /\ pc = "restock_call"
    /\ restock_data' = CalculateRestockSuggestion(forecast_result, current_stock,
                                                   reorder_level, lead_time_days, safety_days)
    /\ pc' = "restock_done"
    /\ UNCHANGED <<forecast_result, current_stock, reorder_level, lead_time_days, safety_days>>
    /\ UNCHANGED fitVars
    /\ UNCHANGED forecasterVars
    /\ UNCHANGED driverVars

NextRestock == RestockReturn

SpecRestock == InitRestock /\ [][NextRestock]_vars

(***************************************************************************)
(* test_stationarity, make_stationary, fit_arima_model (both modules)      *)
(***************************************************************************)
FitMinPoints == 6
BatchMinPoints == 12
FullGridPoints == 12
MinDiffPoints == 3
MaxP == 3
MaxQ == 3
GridCap == 3

\* what adfuller does with the series: a p-value at or below 0.05, one above
\* it, or an exception
AdfOutcomes == {"p_le_005", "p_gt_005", "raises"}

TestStationarity_FailOpen(adf) == adf # "p_gt_005"

\* test_stationarity: an exception is caught and reported as non-stationary
TestStationarity(adf) == adf = "p_le_005"

\* ts.diff().dropna()
Diff(s) == [i \in 1..(Len(s) - 1) |-> s[i + 1] - s[i]]

\* make_stationary: the differenced series unless it is empty
MakeStationary(s) == IF Len(Diff(s)) > 0 THEN Diff(s) ELSE s

PrepareSingle_AlwaysDifferences(s, stationary) ==
    IF Len(MakeStationary(s)) >= MinDiffPoints THEN <<MakeStationary(s), 1>> ELSE <<s, 0>>

\* predict_product_arima.py lines 42-50: <<series to fit, d>>
PrepareSingle(s, stationary) ==
    IF ~stationary
    THEN IF Len(MakeStationary(s)) >= MinDiffPoints
         THEN <<MakeStationary(s), 1>>
         ELSE <<s, 0>>
    ELSE <<s, 0>>

\* arima_restock_prediction.py lines 38-42: <<series to fit, d>>
PrepareBatch(s, stationary) ==
    IF ~stationary THEN <<MakeStationary(s), 1>> ELSE <<s, 0>>

\* the (p, dd, q) of a grid, p ascending outside, q ascending inside
RECURSIVE Grid(_, _, _, _, _)
Grid(p, q, np, nq, dd) ==
    IF p >= np THEN << >>
    ELSE IF q >= nq THEN Grid(p + 1, 0, np, nq, dd)
    ELSE <<(<<p, dd, q>>)>> \o Grid(p, q + 1, np, nq, dd)

ReducedCandidates(dd) ==
    << <<0, dd, 0>>, <<1, dd, 0>>, <<0, dd, 1>>, <<1, dd, 1>>, <<2, dd, 0>>, <<0, dd, 2>> >>

ParamCombinationsSingle_Uncapped(s, dd) ==
    IF Len(s) < FullGridPoints
    THEN ReducedCandidates(dd)
    ELSE Grid(0, 0, MaxP + 1, MaxQ + 1, dd)

\* predict_product_arima.py lines 57-72: chosen by the length of the series
\* that is fitted, which is the differenced one when d = 1
ParamCombinationsSingle(s, dd) ==
    IF Len(s) < FullGridPoints
    THEN ReducedCandidates(dd)
    ELSE Grid(0, 0, Min(MaxP + 1, GridCap), Min(MaxQ + 1, GridCap), dd)

\* arima_restock_prediction.py lines 49-50
ParamCombinationsBatch(s, dd) == Grid(0, 0, MaxP + 1, MaxQ + 1, dd)

\* what ARIMA(ts, order).fit() does: it raises, or returns a model with an AIC
FitOutcomes == {[ok |-> FALSE, aic |-> 0]} \cup [ok : {TRUE}, aic : 1..MaxAic]

\* order c1 comes before c2 with p ascending outside, q ascending inside
OrderBefore(c1, c2) == c1[1] < c2[1] \/ (c1[1] = c2[1] /\ c1[3] < c2[3])

\* the history after candidate number i, of order cand, ended as out
Logged(log, i, cand, out) ==
    IF ~out.ok THEN log
    ELSE IF out.aic \notin DOMAIN log
    THEN [a \in DOMAIN log \cup {out.aic} |->
            IF a = out.aic THEN [first |-> i, least |-> cand] ELSE log[a]]
    ELSE [log EXCEPT ![out.aic].least = IF OrderBefore(cand, @) THEN cand ELSE @]

FoldStep_TakeLatest(best, cand, out) ==
    IF out.ok
    THEN [aic |-> <<out.aic>>, model |-> [order |-> cand, aic |-> out.aic], params |-> cand]
    ELSE best

FoldStep_LessOrEqual(best, cand, out) ==
    IF out.ok /\ (best.aic = << >> \/ out.aic <= best.aic[1])
    THEN [aic |-> <<out.aic>>, model |-> [order |-> cand, aic |-> out.aic], params |-> cand]
    ELSE best

\* fitted_model.aic < best_aic
AicLess(a, best) == best = << >> \/ a < best[1]

\* the loop body: best is the record of best_aic, best_model and best_params
FoldStep(best, cand, out) ==
    IF out.ok /\ AicLess(out.aic, best.aic)
    THEN [aic |-> <<out.aic>>, model |-> [order |-> cand, aic |-> out.aic], params |-> cand]
    ELSE best

GateLength == IF impl = "single" THEN FitMinPoints ELSE BatchMinPoints

\* too short a series: return (None, None[, None]) at once
FitRefuse ==
    /\ pc = "fit_call"
    /\ Len(ts) < GateLength
    /\ fit_return' = None
    /\ pc' = "fit_done"
    /\ UNCHANGED <<impl, ts, original_ts, d, param_combinations, idx, best_aic,
                   best_model, best_params, fit_log, adf_result>>
    /\ UNCHANGED <<forecast_result>>
    /\ UNCHANGED restockVars
    /\ UNCHANGED forecasterVars
    /\ UNCHANGED driverVars

\* stationarity test, differencing and the enumeration of the candidates
FitPrepare ==
    /\ pc = "fit_call"
    /\ Len(ts) >= GateLength
    /\ \E adf \in AdfOutcomes :
          LET prep == IF impl = "single"
                      THEN PrepareSingle(ts, TestStationarity(adf))
                      ELSE PrepareBatch(ts, TestStationarity(adf))
          IN  /\ adf_result' = adf
              /\ ts' = prep[1]
              /\ d' = prep[2]
              /\ param_combinations' = IF impl = "single"
                                       THEN ParamCombinationsSingle(prep[1], prep[2])
                                       ELSE ParamCombinationsBatch(prep[1], prep[2])
    /\ original_ts' = ts
    /\ best_aic' = << >>
    /\ best_model' = None
    /\ best_params' = None
    /\ idx' = 0
    /\ pc' = "fit_loop"
    /\ UNCHANGED <<impl, fit_log, fit_return>>
    /\ UNCHANGED <<forecast_result>>
    /\ UNCHANGED restockVars
    /\ UNCHANGED forecasterVars
    /\ UNCHANGED driverVars

\* one iteration of the loop over the candidates
TryCandidate ==
    /\ pc = "fit_loop"
    /\ idx < Len(param_combinations)
    /\ \E out \in FitOutcomes :
          LET cand == param_combinations[idx + 1]
              best == FoldStep([aic |-> best_aic, model |-> best_model, params |-> best_params],
                               cand, out)
          IN  /\ best_aic' = best.aic
              /\ best_model' = best.model
              /\ best_params' = best.params
              /\ fit_log' = Logged(fit_log, idx + 1, cand, out)
    /\ idx' = idx + 1
    /\ UNCHANGED <<pc, impl, ts, original_ts, d, param_combinations, fit_return,
                   adf_result>>
    /\ UNCHANGED <<forecast_result>>
    /\ UNCHANGED restockVars
    /\ UNCHANGED forecasterVars
    /\ UNCHANGED driverVars

\* return best_model, best_params[, original_ts]
FitReturn ==
    /\ pc = "fit_loop"
    /\ idx = Len(param_combinations)
    /\ fit_return' = IF best_model = None THEN None
                     ELSE [tag |-> "fit", model |-> best_model, params |-> best_params]
    /\ pc' = "fit_done"
    /\ UNCHANGED <<impl, ts, original_ts, d, param_combinations, idx, best_aic,
                   best_model, best_params, fit_log, adf_result>>
    /\ UNCHANGED <<forecast_result>>
    /\ UNCHANGED restockVars
    /\ UNCHANGED forecasterVars
    /\ UNCHANGED driverVars

\* the series handed to selection: lengths around the gates, three shapes
FitLengths ==
    { FitMinPoints - 1, FitMinPoints, FullGridPoints - 1, FullGridPoints,
      FullGridPoints + 1 }

SeriesOf(n, shape) ==
    [i \in 1..n |-> CASE shape = "flat" -> 1
                      [] shape = "ramp" -> i
                      [] OTHER -> i % 2]

InitFit ==
    /\ pc = "fit_call"
    /\ impl \in {"single", "batch"}
    /\ \E n \in FitLengths, shape \in {"flat", "ramp", "zigzag"} : ts = SeriesOf(n, shape)
    /\ original_ts = ts
    /\ d = 0
    /\ param_combinations = << >>
    /\ idx = 0
    /\ best_aic = << >>
    /\ best_model = None
    /\ best_params = None
    /\ fit_log = << >>
    /\ fit_return = None
    /\ adf_result = "not_run"
    /\ forecast_result = None
    /\ current_stock = 0
    /\ reorder_level = 0
    /\ lead_time_days = DefaultLeadTimeDays
    /\ safety_days = DefaultSafetyDays
    /\ restock_data = None
    /\ ForecasterIdle
    /\ DriverIdle

NextFit == FitRefuse \/ FitPrepare \/ TryCandidate \/ FitReturn

SpecFit == InitFit /\ [][NextFit]_vars

(***************************************************************************)
(* The selection as one call, for the forecasters.  The environment's      *)
(* answers to the fits are a script: outcome number i for candidate i.     *)
(***************************************************************************)
FitScripts(k) ==
    { [i \in 1..k |-> [ok |-> FALSE, aic |-> 0]],
      [i \in 1..k |-> [ok |-> TRUE, aic |-> ((i - 1) % MaxAic) + 1]],
      [i \in 1..k |-> IF i = 2 THEN [ok |-> TRUE, aic |-> MaxAic]
                               ELSE [ok |-> FALSE, aic |-> 0]] }

RECURSIVE FitFold(_, _, _, _)
FitFold(best, cands, i, script) ==
    IF i > Len(cands) \/ i > Len(script) THEN best
    ELSE FitFold(FoldStep(best, cands[i], script[i]), cands, i + 1, script)

NoBest == [aic |-> << >>, model |-> None, params |-> None]

FitResult(best) ==
    IF best.model = None THEN None
    ELSE [tag |-> "fit", model |-> best.model, params |-> best.params]

\* predict_product_arima.py fit_arima_model
FitArimaModelSingle(s, adf, script) ==
    IF Len(s) < FitMinPoints THEN None
    ELSE LET prep == PrepareSingle(s, TestStationarity(adf))
         IN  FitResult(FitFold(NoBest, ParamCombinationsSingle(prep[1], prep[2]), 1, script))

\* arima_restock_prediction.py fit_arima_model
FitArimaModelBatch(s, adf, script) ==
    IF Len(s) < BatchMinPoints THEN None
    ELSE LET prep == PrepareBatch(s, TestStationarity(adf))
         IN  FitResult(FitFold(NoBest, ParamCombinationsBatch(prep[1], prep[2]), 1, script))

\* the longest candidate list either module enumerates
MaxCandidates == (MaxP + 1) * (MaxQ + 1)

\* what model.forecast(steps) may return: steps values alternating a, b, the
\* even positions at one of the two extremes
RawForecasts(steps) ==
    { [i \in 1..steps |-> IF i % 2 = 1 THEN a ELSE b] : a \in -1..MaxFc, b \in {-1, MaxFc} }

\* [max(0, f) for f in forecast]
Clamped(fc) == [i \in 1..Len(fc) |-> Max(0, fc[i])]

(***************************************************************************)
(* forecast_product_sales (predict_product_arima.py)                       *)
(***************************************************************************)
MinRawPoints == 3
WeightedMinPoints == 7
MinArimaPoints_Seven == WeightedMinPoints

MinArimaPoints == 6
RecentWindow == 30

RowDays(rows) == {rows[i].day : i \in 1..Len(rows)}

MinDay(rows) == CHOOSE x \in RowDays(rows) : \A y \in RowDays(rows) : x <= y

MaxDay(rows) == CHOOSE x \in RowDays(rows) : \A y \in RowDays(rows) : x >= y

RECURSIVE DaySum(_, _)
\* groupby('transaction_date')['transaction_qty'].sum(), for one date
DaySum(rows, day) ==
    IF rows = << >> THEN 0
    ELSE (IF Head(rows).day = day THEN Head(rows).qty ELSE 0) + DaySum(Tail(rows), day)

\* lines 104 and 115-116: daily totals, missing dates filled with 0
GapFilled(rows) ==
    [i \in 1..(MaxDay(rows) - MinDay(rows) + 1) |-> DaySum(rows, MinDay(rows) + i - 1)]

\* lines 107-111, taken before the gaps are filled
SalesStats(rows) ==
    [ tag                |-> "stats",
      total_sales        |-> SumSeq([i \in 1..Len(rows) |-> rows[i].qty]),
      total_transactions |-> Len(rows),
      total_days         |-> MaxDay(rows) - MinDay(rows) + 1,
      max_daily          |-> CHOOSE m \in {DaySum(rows, x) : x \in RowDays(rows)} :
                                \A x \in RowDays(rows) : m >= DaySum(rows, x) ]

ActiveDays_AllDays(s) == Len(s)

\* (daily_sales > 0).sum()
ActiveDays(s) == Cardinality({i \in 1..Len(s) : s[i] > 0})

\* max(0, avg_daily)
ClampedMean(avg) == IF avg[1] < 0 THEN <<0, 1>> ELSE avg

\* [x] * n
Copies(x, n) == [i \in 1..n |-> x]

\* np.std(forecast) squared: the population variance, as a rational
Variance(fc) ==
    IF Len(fc) > 1
    THEN <<Len(fc) * SumSeq([i \in 1..Len(fc) |-> fc[i] * fc[i]]) - SumSeq(fc) * SumSeq(fc),
           Len(fc) * Len(fc)>>
    ELSE <<0, 1>>

\* lines 131-147
ArimaResult(raw, fit, stats) ==
    [ tag              |-> "forecast",
      forecast_demand  |-> [i \in 1..Len(raw) |-> <<Clamped(raw)[i], 1>>],
      method           |-> "ARIMA",
      params           |-> fit.params,
      avg_daily_demand |-> Mean(Clamped(raw)),
      max_daily_demand |-> stats.max_daily,
      forecast_std     |-> [squared |-> Variance(Clamped(raw))],
      confidence_score |-> 85 ]

FallbackResult_WholeSeries(s, stats, steps) ==
    LET weighted  == Len(s) >= WeightedMinPoints
        avg_daily == Mean(s)
    IN  [ tag              |-> "forecast",
          forecast_demand  |-> Copies(ClampedMean(avg_daily), steps),
          method           |-> IF weighted THEN "weighted_average" ELSE "moving_average",
          avg_daily_demand |-> avg_daily,
          max_daily_demand |-> stats.max_daily,
          confidence_score |-> IF weighted THEN 70 ELSE 68 ]

\* lines 153-172
FallbackResult(s, stats, steps) ==
    LET weighted  == Len(s) >= WeightedMinPoints
        avg_daily == IF weighted THEN Mean(TailOf(s, Min(RecentWindow, Len(s)))) ELSE Mean(s)
    IN  [ tag              |-> "forecast",
          forecast_demand  |-> Copies(ClampedMean(avg_daily), steps),
          method           |-> IF weighted THEN "weighted_average" ELSE "moving_average",
          avg_daily_demand |-> avg_daily,
          max_daily_demand |-> stats.max_daily,
          confidence_score |-> IF weighted THEN 70 ELSE 68 ]

\* lines 176-198
IntelligentResult(s, stats, steps) ==
    LET active    == ActiveDays(s)
        by_day    == IF active > 0 THEN <<stats.total_sales, active>> ELSE Mean(s)
        \* transaction_rate * avg_per_transaction
        estimated == <<stats.total_transactions * stats.total_sales,
                       stats.total_days * stats.total_transactions>>
        avg_daily == IF stats.total_transactions > 0 /\ stats.total_days > 0
                     THEN RatMax(by_day, estimated)
                     ELSE by_day
    IN  [ tag              |-> "forecast",
          forecast_demand  |-> Copies(ClampedMean(avg_daily), steps),
          method           |-> "intelligent_average",
          avg_daily_demand |-> avg_daily,
          max_daily_demand |-> stats.max_daily,
          confidence_score |-> 65 ]

ForecastUnchanged ==
    /\ UNCHANGED restockVars
    /\ UNCHANGED driverVars
    /\ UNCHANGED <<impl, ts, original_ts, d, param_combinations, idx, best_aic,
                   best_model, best_params, fit_log>>

\* a statement of the body raises (unreadable CSV or bad product id at lines
\* 92-98, a pandas or numpy failure later): caught at line 200
SalesFault ==
    /\ pc \in {"sales_call", "sales_loaded", "sales_fitted"}
    /\ forecast_result' = None
    /\ pc' = "return_201"
    /\ UNCHANGED <<fit_return, product_data, days_ahead, daily_sales, sales_stats,
                   monthly_sales, forecast_call>>
    /\ UNCHANGED adf_result
    /\ ForecastUnchanged

\* line 100: fewer than 3 rows
SalesRefuse ==
    /\ pc = "sales_call"
    /\ Len(product_data) < MinRawPoints
    /\ forecast_result' = None
    /\ pc' = "return_101"
    /\ UNCHANGED <<fit_return, product_data, days_ahead, daily_sales, sales_stats,
                   monthly_sales, forecast_call>>
    /\ UNCHANGED adf_result
    /\ ForecastUnchanged

\* lines 104-116: group by date, take the statistics, fill the gaps
SalesLoad ==
    /\ pc = "sales_call"
    /\ Len(product_data) >= MinRawPoints
    /\ daily_sales' = GapFilled(product_data)
    /\ sales_stats' = SalesStats(product_data)
    /\ pc' = "sales_loaded"
    /\ UNCHANGED <<forecast_result, fit_return, product_data, days_ahead, monthly_sales,
                   forecast_call>>
    /\ UNCHANGED adf_result
    /\ ForecastUnchanged

\* lines 122-124: the ARIMA gate and the model selection
SalesFit ==
    /\ pc = "sales_loaded"
    /\ Len(daily_sales) >= MinArimaPoints
    /\ \E adf \in AdfOutcomes, script \in FitScripts(MaxCandidates) :
          /\ fit_return' = FitArimaModelSingle(daily_sales, adf, script)
          /\ adf_result' = IF Len(daily_sales) < FitMinPoints THEN "not_run" ELSE adf
    /\ pc' = "sales_fitted"
    /\ UNCHANGED <<forecast_result, product_data, days_ahead, daily_sales, sales_stats,
                   monthly_sales, forecast_call>>
    /\ ForecastUnchanged

\* lines 126-147: the model's forecast is returned
SalesArima ==
    /\ pc = "sales_fitted"
    /\ fit_return # None
    /\ \E raw \in RawForecasts(days_ahead) :
          forecast_result' = ArimaResult(raw, fit_return, sales_stats)
    /\ forecast_call' = "returned"
    /\ pc' = "return_139"
    /\ UNCHANGED <<fit_return, product_data, days_ahead, daily_sales, sales_stats,
                   monthly_sales>>
    /\ UNCHANGED adf_result
    /\ ForecastUnchanged

\* lines 148-172: model.forecast raised; fall through to the averages
SalesArimaRaises ==
    /\ pc = "sales_fitted"
    /\ fit_return # None
    /\ forecast_result' = FallbackResult(daily_sales, sales_stats, days_ahead)
    /\ forecast_call' = "raised"
    /\ pc' = "return_166"
    /\ UNCHANGED <<fit_return, product_data, days_ahead, daily_sales, sales_stats,
                   monthly_sales>>
    /\ UNCHANGED adf_result
    /\ ForecastUnchanged

\* lines 152-172: no model was selected
SalesFallback ==
    /\ pc = "sales_fitted"
    /\ fit_return = None
    /\ forecast_result' = FallbackResult(daily_sales, sales_stats, days_ahead)
    /\ pc' = "return_166"
    /\ UNCHANGED <<fit_return, product_data, days_ahead, daily_sales, sales_stats,
                   monthly_sales, forecast_call>>
    /\ UNCHANGED adf_result
    /\ ForecastUnchanged

\* lines 173-198: fewer than 6 periods after gap filling
SalesIntelligent ==
    /\ pc = "sales_loaded"
    /\ Len(daily_sales) < MinArimaPoints
    /\ forecast_result' = IntelligentResult(daily_sales, sales_stats, days_ahead)
    /\ pc' = "return_192"
    /\ UNCHANGED <<fit_return, product_data, days_ahead, daily_sales, sales_stats,
                   monthly_sales, forecast_call>>
    /\ UNCHANGED adf_result
    /\ ForecastUnchanged

\* the transaction dates explored, as day offsets: two adjacent days, one that
\* makes the series reach the ARIMA gate, one beyond the 30-day window
RowDayChoices == {0, 1, 6, 31}

RowQtyChoices == {-1, 0, 2}

RowChoices == [day : RowDayChoices, qty : RowQtyChoices]

\* rows in file order; the forecaster sums per date, so only one order of each
\* multiset of rows is explored
RowBefore(r1, r2) == r1.day < r2.day \/ (r1.day = r2.day /\ r1.qty <= r2.qty)

ProductRows ==
    UNION { { rows \in [1..n -> RowChoices] :
                \A i \in 1..(n - 1) : RowBefore(rows[i], rows[i + 1]) } : n \in 0..MaxRows }

InitSales ==
    /\ pc = "sales_call"
    /\ impl = "single"
    /\ product_data \in ProductRows
    /\ days_ahead \in {1, DefaultDaysAhead}
    /\ monthly_sales = << >>

(***************************************************************************)
(* forecast_product (arima_restock_prediction.py)                          *)
(***************************************************************************)
ProductMinPoints_AsSalesFloor == MinRawPoints

ProductMinPoints == 6
DefaultMonthsAhead == 12

\* lines 74-79: no clamp is applied to the mean
MovingAverageResult(s, steps) ==
    [ tag      |-> "forecast",
      forecast |-> Copies(Mean(s), steps),
      method   |-> "moving_average",
      params   |-> None ]

\* lines 82-90
ProductArimaResult(raw, fit) ==
    [ tag       |-> "forecast",
      forecast  |-> [i \in 1..Len(raw) |-> <<Clamped(raw)[i], 1>>],
      method    |-> "ARIMA",
      params    |-> fit.params,
      model_aic |-> fit.model.aic ]

\* lines 91-99: no clamp is applied to the mean
AverageResult(s, steps) ==
    [ tag      |-> "forecast",
      forecast |-> Copies(Mean(s), steps),
      method   |-> "average",
      params   |-> None,
      error    |-> "str(e)" ]

\* line 65: fewer than 6 months
ProductRefuse ==
    /\ pc = "product_call"
    /\ Len(monthly_sales) < ProductMinPoints
    /\ forecast_result' = None
    /\ pc' = "return_66"
    /\ UNCHANGED <<fit_return, product_data, days_ahead, daily_sales, sales_stats,
                   monthly_sales, forecast_call>>
    /\ UNCHANGED adf_result
    /\ ForecastUnchanged

\* line 70: the model selection
ProductFit ==
    /\ pc = "product_call"
    /\ Len(monthly_sales) >= ProductMinPoints
    /\ \E adf \in AdfOutcomes, script \in FitScripts(MaxCandidates) :
          /\ fit_return' = FitArimaModelBatch(monthly_sales, adf, script)
          /\ adf_result' = IF Len(monthly_sales) < BatchMinPoints THEN "not_run" ELSE adf
    /\ pc' = "product_fitted"
    /\ UNCHANGED <<forecast_result, product_data, days_ahead, daily_sales, sales_stats,
                   monthly_sales, forecast_call>>
    /\ ForecastUnchanged

\* lines 72-79: no model
ProductMovingAverage ==
    /\ pc = "product_fitted"
    /\ fit_return = None
    /\ forecast_result' = MovingAverageResult(monthly_sales, days_ahead)
    /\ pc' = "return_75"
    /\ UNCHANGED <<fit_return, product_data, days_ahead, daily_sales, sales_stats,
                   monthly_sales, forecast_call>>
    /\ UNCHANGED adf_result
    /\ ForecastUnchanged

\* lines 82-90: the model's forecast is returned
ProductArima ==
    /\ pc = "product_fitted"
    /\ fit_return # None
    /\ \E raw \in RawForecasts(days_ahead) :
          forecast_result' = ProductArimaResult(raw, fit_return)
    /\ forecast_call' = "returned"
    /\ pc' = "return_85"
    /\ UNCHANGED <<fit_return, product_data, days_ahead, daily_sales, sales_stats,
                   monthly_sales>>
    /\ UNCHANGED adf_result
    /\ ForecastUnchanged

\* lines 91-99: model.forecast raised
ProductArimaRaises ==
    /\ pc = "product_fitted"
    /\ fit_return # None
    /\ forecast_result' = AverageResult(monthly_sales, days_ahead)
    /\ forecast_call' = "raised"
    /\ pc' = "return_94"
    /\ UNCHANGED <<fit_return, product_data, days_ahead, daily_sales, sales_stats,
                   monthly_sales>>
    /\ UNCHANGED adf_result
    /\ ForecastUnchanged

\* the monthly series explored: lengths around the floors, values alternating
MonthlyLengths == {2, 3, 5, 6, 11, 12}

MonthlySeries ==
    { [i \in 1..n |-> IF i % 2 = 1 THEN a ELSE b] :
        n \in MonthlyLengths, a \in RowQtyChoices, b \in RowQtyChoices }

InitProduct ==
    /\ pc = "product_call"
    /\ impl = "batch"
    /\ monthly_sales \in MonthlySeries
    /\ days_ahead \in {1, DefaultMonthsAhead}
    /\ product_data = << >>

InitForecast ==
    /\ InitSales \/ InitProduct
    /\ daily_sales = << >>
    /\ sales_stats = None
    /\ forecast_call = "not_called"
    /\ forecast_result = None
    /\ fit_return = None
    /\ adf_result = "not_run"
    /\ ts = << >>
    /\ original_ts = << >>
    /\ d = 0
    /\ param_combinations = << >>
    /\ idx = 0
    /\ best_aic = << >>
    /\ best_model = None
    /\ best_params = None
    /\ fit_log = << >>
    /\ current_stock = 0
    /\ reorder_level = 0
    /\ lead_time_days = DefaultLeadTimeDays
    /\ safety_days = DefaultSafetyDays
    /\ restock_data = None
    /\ DriverIdle

NextForecast ==
    \/ SalesFault
    \/ SalesRefuse
    \/ SalesLoad
    \/ SalesFit
    \/ SalesArima
    \/ SalesArimaRaises
    \/ SalesFallback
    \/ SalesIntelligent
    \/ ProductRefuse
    \/ ProductFit
    \/ ProductMovingAverage
    \/ ProductArima
    \/ ProductArimaRaises

SpecForecast == InitForecast /\ [][NextForecast]_vars

(***************************************************************************)
(* The callers: __main__ of predict_product_arima.py and                   *)
(* predict_all_products (predict_all_products.py).  What                   *)
(* forecast_product_sales answers for a product is drawn from the results  *)
(* its return statements build, with the demand figures in the planner's   *)
(* units.                                                                  *)
(***************************************************************************)
MaxProducts == 3      \* the CSV holds 0..MaxProducts products

MainDefaultStock == 0
MainDefaultReorder == 10
default_current_stock == 0
default_reorder_level == 10

\* the results of lines 139-147, 166-172 and 192-198
DriverForecasts ==
    { [ tag |-> "forecast", method |-> "ARIMA", avg_daily_demand |-> a,
        max_daily_demand |-> MaxDemand, forecast_std |-> sd, confidence_score |-> 85 ] :
          a \in {0, MaxDemand}, sd \in {0, 1} }
    \cup
    { [ tag |-> "forecast", method |-> m, avg_daily_demand |-> a,
        max_daily_demand |-> MaxDemand,
        confidence_score |-> CASE m = "weighted_average" -> 70
                               [] m = "moving_average" -> 68
                               [] OTHER -> 65 ] :
          m \in {"weighted_average", "moving_average", "intelligent_average"},
          a \in {0, MaxDemand} }

\* what forecast_product_sales returns to a caller
ForecastOutcomes == {None} \cup DriverForecasts

\* lines 208-210: forecast_result.get(key, default)
GetStats(fr) ==
    [ tag              |-> "stats",
      avg_daily_demand |-> fr.avg_daily_demand,
      max_daily_demand |-> fr.max_daily_demand,
      forecast_std     |-> IF "forecast_std" \in DOMAIN fr THEN fr.forecast_std ELSE 0 ]

\* the call calculate_restock_suggestion(forecast_result, stock, reorder)
RestockFor(fr, stock, reorder) ==
    CalculateRestockSuggestion(GetStats(fr), stock, reorder,
                               DefaultLeadTimeDays, DefaultSafetyDays)

\* an optional command-line argument: <<n>> reads as the integer n, << >>
\* does not read as an integer
ArgInt(a) == a.int

IsInt(a) == a.int # << >>

MainResult_NoRestock(pid, fr, rd) ==
    IF fr # None
    THEN [ success |-> TRUE, product_id |-> pid, forecast |-> fr,
           prediction_method |-> "ARIMA" ]
    ELSE [ success |-> FALSE, error |-> "Insufficient data for ARIMA forecast",
           product_id |-> pid ]

\* predict_product_arima.py lines 285-305
MainResult(pid, fr, rd) ==
    IF fr # None
    THEN [ success |-> TRUE, product_id |-> pid, forecast |-> fr, restock |-> rd,
           prediction_method |-> "ARIMA" ]
    ELSE [ success |-> FALSE, error |-> "Insufficient data for ARIMA forecast",
           product_id |-> pid ]

DriverUnchanged ==
    /\ UNCHANGED fitVars
    /\ UNCHANGED forecasterVars
    /\ UNCHANGED <<lead_time_days, safety_days>>

MainUnchanged ==
    /\ DriverUnchanged
    /\ UNCHANGED <<argv, unique_products, product_idx, results, successful, failed>>

\* lines 274-276: no product id
MainUsage ==
    /\ pc = "main_call"
    /\ Len(argv) < 1
    /\ printed' = Append(printed, [error |-> "Product ID required"])
    /\ exit_status' = <<1>>
    /\ pc' = "main_exit"
    /\ UNCHANGED <<forecast_result, current_stock, reorder_level, restock_data>>
    /\ MainUnchanged

\* lines 279-280: int() raises ValueError, which nothing catches
MainBadArgument ==
    /\ pc = "main_call"
    /\ Len(argv) >= 1
    /\ \E i \in 2..Len(argv) : ~IsInt(argv[i])
    /\ exit_status' = <<1>>
    /\ pc' = "main_exit"
    /\ UNCHANGED <<forecast_result, current_stock, reorder_level, restock_data, printed>>
    /\ MainUnchanged

\* lines 278-283: the arguments are read and the forecast is asked for
MainForecast ==
    /\ pc = "main_call"
    /\ Len(argv) >= 1
    /\ \A i \in 2..Len(argv) : IsInt(argv[i])
    /\ current_stock' = IF Len(argv) > 1 THEN ArgInt(argv[2])[1] ELSE MainDefaultStock
    /\ reorder_level' = IF Len(argv) > 2 THEN ArgInt(argv[3])[1] ELSE MainDefaultReorder
    /\ forecast_result' \in ForecastOutcomes
    /\ pc' = "main_forecast"
    /\ UNCHANGED <<restock_data, printed, exit_status>>
    /\ MainUnchanged

\* lines 285-307: the result is built and printed; the process ends normally
MainPrint ==
    /\ pc = "main_forecast"
    /\ restock_data' = IF forecast_result # None
                        THEN RestockFor(forecast_result, current_stock, reorder_level)
                        ELSE restock_data
    /\ printed' = Append(printed, MainResult(argv[1].text, forecast_result, restock_data'))
    /\ exit_status' = <<0>>
    /\ pc' = "main_exit"
    /\ UNCHANGED <<forecast_result, current_stock, reorder_level>>
    /\ MainUnchanged

ArgChoices == {[text |-> "n", int |-> <<0>>], [text |-> "n", int |-> <<MaxStock>>],
               [text |-> "x", int |-> << >>]}

ArgvChoices ==
    { << >>, << [text |-> "7", int |-> <<7>>] >> }
    \cup { << [text |-> "7", int |-> <<7>>], a >> : a \in ArgChoices }
    \cup { << [text |-> "7", int |-> <<7>>], a, b >> : a \in ArgChoices, b \in ArgChoices }

InitMain ==
    /\ pc = "main_call"
    /\ argv \in ArgvChoices
    /\ unique_products = << >>

\* one product of the CSV: its id and whether pandas read its product_name
\* as a string (an empty or 'nan' cell is read as the float NaN)
Products(n) == [1..n -> [name_is_str : BOOLEAN]]

\* lines 55-62
BatchRecord(pid, fr, rd) ==
    [ success |-> TRUE, product_id |-> pid, forecast |-> fr, restock |-> rd,
      prediction_method |-> IF fr.method = "ARIMA" THEN "ARIMA" ELSE "AI-Enhanced" ]

\* lines 38-84, one pass of the loop body: the counters and the results after
\* it.  raises: a statement of lines 40-52 raised.  The progress line of each
\* branch slices product_name, which raises TypeError when the name is NaN;
\* the handler at lines 81-84 then counts the product as failed.
VisitProduct(st, pid, product, fr, raises) ==
    LET report == IF product.name_is_str THEN 0 ELSE 1
    IN  IF raises
        THEN [st EXCEPT !.failed = @ + 1]
        ELSE IF fr # None
        THEN [ results    |-> Append(st.results,
                                     BatchRecord(pid, fr,
                                                 RestockFor(fr, default_current_stock,
                                                            default_reorder_level))),
               successful |-> st.successful + 1,
               failed     |-> st.failed + report ]
        ELSE [st EXCEPT !.failed = @ + 1 + report]

BatchUnchanged ==
    /\ DriverUnchanged
    /\ UNCHANGED <<argv, printed, exit_status, unique_products>>
    /\ UNCHANGED <<forecast_result, current_stock, reorder_level, restock_data>>

\* lines 37-84: the next product is visited
BatchVisit ==
    /\ pc = "batch_loop"
    /\ product_idx < Len(unique_products)
    /\ \E fr \in ForecastOutcomes, raises \in BOOLEAN :
          LET st == VisitProduct([results |-> results, successful |-> successful,
                                  failed |-> failed],
                                 product_idx + 1, unique_products[product_idx + 1],
                                 fr, raises)
          IN  /\ results' = st.results
              /\ successful' = st.successful
              /\ failed' = st.failed
    /\ product_idx' = product_idx + 1
    /\ UNCHANGED pc
    /\ BatchUnchanged

\* lines 86-118: the summary; its percentages divide by the number of
\* products, so that with no product ZeroDivisionError ends the call at line 92
BatchSummary ==
    /\ pc = "batch_loop"
    /\ product_idx = Len(unique_products)
    /\ pc' = IF Len(unique_products) = 0 THEN "batch_raised" ELSE "batch_done"
    /\ UNCHANGED <<product_idx, results, successful, failed>>
    /\ BatchUnchanged

InitBatch ==
    /\ pc = "batch_loop"
    /\ \E n \in 0..MaxProducts : unique_products \in Products(n)
    /\ argv = << >>

InitDrivers ==
    /\ InitMain \/ InitBatch
    /\ printed = << >>
    /\ exit_status = << >>
    /\ product_idx = 0
    /\ results = << >>
    /\ successful = 0
    /\ failed = 0
    /\ forecast_result = None
    /\ current_stock = 0
    /\ reorder_level = 0
    /\ lead_time_days = DefaultLeadTimeDays
    /\ safety_days = DefaultSafetyDays
    /\ restock_data = None
    /\ FitIdle
    /\ ForecasterIdle

NextDrivers ==
    \/ MainUsage
    \/ MainBadArgument
    \/ MainForecast
    \/ MainPrint
    \/ BatchVisit
    \/ BatchSummary

SpecDrivers == InitDrivers /\ [][NextDrivers]_vars

(***************************************************************************)
(* Claims about calculate_restock_suggestion (checked under SpecRestock)   *)
(***************************************************************************)
RestockDone == pc = "restock_done" /\ restock_data # None

\* C1: for every call with a non-empty forecast result and non-negative
\* arguments, the returned suggested_quantity is an integer >= 0 and, whenever
\* it is nonzero, it is >= reorder_level.
C1_SuggestedQuantityRange ==
    RestockDone =>
        /\ restock_data.suggested_quantity \in Nat
        /\ restock_data.suggested_quantity # 0
              => restock_data.suggested_quantity >= reorder_level

\* C1 witness: a call where the shortfall after the overstock cap is positive
\* but below one reorder batch, so that the floor raised it to reorder_level.
C1_Witness ==
    /\ RestockDone
    /\ LET required == RequiredStock(forecast_result.avg_daily_demand,
                                     forecast_result.forecast_std,
                                     lead_time_days, safety_days)
           ceiling  == MaxReasonableStock(forecast_result.max_daily_demand,
                                          reorder_level, lead_time_days, safety_days)
           capped   == CappedQuantity(required, ceiling, current_stock)
       IN  /\ capped > 0
           /\ capped < reorder_level
           /\ current_stock * StockUnit < required
    /\ restock_data.suggested_quantity = reorder_level

\* the days until depletion as the specification defines them
C9_DaysUntilDepletion ==
    IF current_stock > 0
    THEN CeilDiv(current_stock * DemandUnit, forecast_result.avg_daily_demand)
    ELSE 0

\* C9: with positive demand, understocking risk is 'high' whenever
\* daysUntilDepletion <= leadTimeDays (an out-of-stock product included),
\* 'low' whenever daysUntilDepletion > leadTimeDays + safetyDays, and
\* 'medium' otherwise.
C9_UnderstockingLabels ==
    (RestockDone /\ forecast_result.avg_daily_demand > 0) =>
        restock_data.understocking_risk =
            IF C9_DaysUntilDepletion <= lead_time_days THEN "high"
            ELSE IF C9_DaysUntilDepletion > lead_time_days + safety_days THEN "low"
            ELSE "medium"

\* C10: when avgDailyDemand is 0, suggested_quantity = reorderLevel whenever
\* currentStock < reorderLevel, and it is 0 only when currentStock >= reorderLevel.
C10_ZeroDemandFloorsToReorderLevel ==
    (RestockDone /\ forecast_result.avg_daily_demand = 0) =>
        /\ current_stock < reorder_level
              => restock_data.suggested_quantity = reorder_level
        /\ restock_data.suggested_quantity = 0 => current_stock >= reorder_level

\* the required stock of the call, in units of 1 / (10 * DemandUnit)
C11_RequiredStock ==
    RequiredStock(forecast_result.avg_daily_demand, forecast_result.forecast_std,
                  lead_time_days, safety_days)

\* positive demand, stock covering the requirement, depletion beyond the window
C11_Covered ==
    /\ RestockDone
    /\ forecast_result.avg_daily_demand > 0
    /\ current_stock * StockUnit >= C11_RequiredStock
    /\ C9_DaysUntilDepletion > lead_time_days + safety_days

\* C11 as stated: with avgDailyDemand > 0 and any non-negative leadTimeDays
\* and safetyDays, currentStock >= requiredStock and daysUntilDepletion >
\* leadTimeDays + safetyDays give suggested_quantity = 0 and
\* understocking_risk = 'low'.
C11_CoveredStockOrdersNothing ==
    C11_Covered =>
        /\ restock_data.suggested_quantity = 0
        /\ restock_data.understocking_risk = "low"

\* C11 amended: under the same conditions understocking_risk is 'low', and
\* suggested_quantity is 0 when daysUntilDepletion > leadTimeDays + 3 (always
\* so when safetyDays >= 3); when daysUntilDepletion <= leadTimeDays + 3 it is
\* the top-up max(reorderLevel, ceil(avgDailyDemand * (leadTimeDays + 3))).
C11_CoveredStockOrdersNothingBeyondMargin ==
    C11_Covered =>
        /\ restock_data.understocking_risk = "low"
        /\ safety_days >= 3 => C9_DaysUntilDepletion > lead_time_days + 3
        /\ restock_data.suggested_quantity =
              IF C9_DaysUntilDepletion > lead_time_days + 3
              THEN 0
              ELSE Max(reorder_level,
                       CeilDiv(forecast_result.avg_daily_demand * (lead_time_days + 3),
                               DemandUnit))

\* C11 witness: a safety window shorter than 3 days, stock that covers the
\* requirement and lasts beyond leadTimeDays + 3; nothing is ordered although
\* one reorder batch had been set by the floor.
C11_Witness ==
    /\ C11_Covered
    /\ safety_days < 3
    /\ reorder_level > 0
    /\ C9_DaysUntilDepletion > lead_time_days + 3
    /\ restock_data.suggested_quantity = 0
    /\ restock_data.understocking_risk = "low"

\* C12: with avgDailyDemand > 0 fixed, the variability buffer is a
\* non-decreasing function of forecastStd over all forecastStd >= 0, the step
\* from 0 to a positive value included, and once it reaches
\* 0.3 * avgDailyDemand it stays at that value.
C12_BufferMonotoneInStd ==
    (RestockDone /\ forecast_result.avg_daily_demand > 0) =>
        \A s \in 0..forecast_result.forecast_std :
            LET avg    == forecast_result.avg_daily_demand
                lower  == VariabilityBuffer(avg, s)
                higher == VariabilityBuffer(avg, forecast_result.forecast_std)
            IN  /\ lower <= higher
                /\ lower = 3 * avg => higher = 3 * avg

\* lines 249-252: the branch that orders a top-up is taken
C18_TopUpTaken ==
    /\ current_stock * StockUnit >= C11_RequiredStock
    /\ forecast_result.avg_daily_demand > 0
    /\ C9_DaysUntilDepletion # 0
    /\ C9_DaysUntilDepletion <= lead_time_days + 3

\* C18: for avgDailyDemand >= 0, leadTimeDays >= 0 and safetyDays >= 3 the
\* depletion top-up branch is unreachable: whenever currentStock >=
\* requiredStock the returned suggested_quantity is 0, because currentStock >=
\* requiredStock forces daysUntilDepletion > leadTimeDays + 3.
C18_TopUpUnreachable ==
    (RestockDone /\ safety_days >= 3) =>
        /\ ~C18_TopUpTaken
        /\ current_stock * StockUnit >= C11_RequiredStock =>
              /\ restock_data.suggested_quantity = 0
              /\ forecast_result.avg_daily_demand > 0 =>
                    C9_DaysUntilDepletion > lead_time_days + 3

\* C18 witness: a safety window of exactly 3 days, positive demand and the
\* least stock that covers the requirement; nothing is ordered.
C18_Witness ==
    /\ RestockDone
    /\ safety_days = 3
    /\ forecast_result.avg_daily_demand > 0
    /\ reorder_level > 0
    /\ current_stock * StockUnit >= C11_RequiredStock
    /\ (current_stock - 1) * StockUnit < C11_RequiredStock
    /\ restock_data.suggested_quantity = 0

(***************************************************************************)
(* Claims about fit_arima_model (checked under SpecFit)                    *)
(***************************************************************************)
\* the least AIC among the fits that succeeded so far
MinFittedAic == CHOOSE a \in DOMAIN fit_log : \A b \in DOMAIN fit_log : a <= b

Selecting == pc \in {"fit_loop", "fit_done"}

TriedOrders == {param_combinations[j] : j \in 1..idx}

C6_BestIsMinimumOfFitted ==
    Selecting =>
        /\ best_model = None <=> DOMAIN fit_log = {}
        /\ best_model # None =>
              /\ best_model.aic = MinFittedAic
              /\ best_aic = <<MinFittedAic>>
              /\ best_model.order \in TriedOrders
              /\ best_params = best_model.order
        /\ pc = "fit_done" =>
              /\ idx = Len(param_combinations)
              /\ fit_return = None <=> DOMAIN fit_log = {}
              /\ fit_return # None => fit_return.model = best_model

C6_FailedFitIsSkipped ==
    (pc = "fit_loop" /\ pc' = "fit_loop" /\ fit_log' = fit_log) =>
        /\ <<best_aic, best_model, best_params>>' = <<best_aic, best_model, best_params>>
        /\ idx' = idx + 1

\* C6: fit_arima_model folds over its whole candidate list: a failed fit is
\* skipped, leaves the best-so-far unchanged and does not stop later
\* candidates; the returned model is a fitted candidate of minimal AIC among
\* all fitted candidates, and the result is None exactly when every candidate
\* failed to fit.
C6_FoldOverCandidates == [](C6_BestIsMinimumOfFitted) /\ [][C6_FailedFitIsSkipped]_vars

\* C6 witness: a complete selection in which some candidate failed, a later
\* one fitted, and a candidate fitted with an AIC above the minimum.
C6_Witness ==
    /\ pc = "fit_done"
    /\ fit_return # None
    /\ Cardinality(DOMAIN fit_log) >= 2
    /\ fit_log[MinFittedAic].first > 1
    /\ \E a \in DOMAIN fit_log : a > MinFittedAic /\ fit_log[a].first < fit_log[MinFittedAic].first

\* C7 as stated: among the fitted candidates of minimal AIC the one returned
\* is the first with p ascending (outer), q ascending (inner), under both
\* candidate policies.
C7_TieGoesToLeastOrder ==
    (pc = "fit_done" /\ fit_return # None) =>
        fit_return.params = fit_log[MinFittedAic].least

IsGrid == Len(param_combinations) # Len(ReducedCandidates(d))

\* C7 amended: the candidate returned is the first fitted candidate of minimal
\* AIC in the iteration order of the candidate list; for the grid that order
\* is p ascending (outer), q ascending (inner), for the reduced list it is the
\* listed order (0,d,0), (1,d,0), (0,d,1), (1,d,1), (2,d,0), (0,d,2).
C7_TieGoesToFirstListed ==
    (pc = "fit_done" /\ fit_return # None) =>
        /\ fit_return.params = param_combinations[fit_log[MinFittedAic].first]
        /\ IsGrid => fit_return.params = fit_log[MinFittedAic].least
        /\ ~IsGrid => param_combinations = ReducedCandidates(d)

\* C7 witness: under the reduced policy two candidates tie at the minimum and
\* the listed order differs from the (p, q) order; the listed one is returned.
C7_Witness ==
    /\ pc = "fit_done"
    /\ fit_return # None
    /\ ~IsGrid
    /\ param_combinations[fit_log[MinFittedAic].first] # fit_log[MinFittedAic].least
    /\ fit_return.params = param_combinations[fit_log[MinFittedAic].first]

CandidateSet == {param_combinations[j] : j \in 1..Len(param_combinations)}

\* C8 as stated: with N the number of observations of the input series,
\* N >= 12 gives exactly the full grid over p in 0..maxP, q in 0..maxQ and
\* 6 <= N < 12 gives exactly the six reduced candidates.
C8_PolicyByInputLength ==
    (pc \in {"fit_loop", "fit_done"}) =>
        /\ Len(original_ts) >= 12 =>
              CandidateSet = {<<p, d, q>> : p \in 0..MaxP, q \in 0..MaxQ}
        /\ (Len(original_ts) >= 6 /\ Len(original_ts) < 12) =>
              param_combinations = ReducedCandidates(d)

\* C8 amended: in predict_product_arima.py the policy is chosen by the length
\* of the series that is fitted (the differenced one when d = 1): at 12 or
\* more it is the grid over p, q in 0..min(maxP, 2), 0..min(maxQ, 2) (9
\* candidates with the defaults), below 12 the six reduced candidates in the
\* listed order; in arima_restock_prediction.py a series of 12 or more gets
\* the full grid over 0..maxP, 0..maxQ (16 candidates) and a shorter one is
\* refused before any candidate is enumerated.
C8_PolicyByFittedLength ==
    /\ (impl = "single" /\ pc \in {"fit_loop", "fit_done"} /\ Len(original_ts) >= 6) =>
          /\ Len(ts) = Len(original_ts) - d
          /\ Len(ts) >= 12 =>
                /\ CandidateSet = {<<p, d, q>> : p \in 0..2, q \in 0..2}
                /\ Len(param_combinations) = 9
          /\ Len(ts) < 12 =>
                param_combinations =
                    << <<0, d, 0>>, <<1, d, 0>>, <<0, d, 1>>, <<1, d, 1>>, <<2, d, 0>>, <<0, d, 2>> >>
    /\ (impl = "batch" /\ pc \in {"fit_loop", "fit_done"}) =>
          IF Len(original_ts) >= 12
          THEN /\ CandidateSet = {<<p, d, q>> : p \in 0..3, q \in 0..3}
               /\ Len(param_combinations) = 16
          ELSE /\ param_combinations = << >>
               /\ fit_return = None
               /\ pc = "fit_done"

\* C8 witness: predict_product_arima.py, a non-stationary input of 12
\* observations is differenced to 11 and gets the reduced candidates.
C8_Witness ==
    /\ impl = "single"
    /\ pc = "fit_loop"
    /\ Len(original_ts) = 12
    /\ d = 1
    /\ Len(ts) = 11
    /\ param_combinations = ReducedCandidates(1)

\* the 'make stationary if needed' step run once more, on the series the
\* first run left, the tester answering as it did
C17_PreparedAgain ==
    IF impl = "single"
    THEN PrepareSingle(ts, TestStationarity(adf_result))
    ELSE PrepareBatch(ts, TestStationarity(adf_result))

\* C17: for a series the stationarity tester reports as stationary the
\* differencing step of model selection leaves the series undifferenced with
\* d = 0, and running the step twice gives the same series and the same d as
\* running it once; the differencer is never applied to such a series.
C17_StationaryIsLeftUndifferenced ==
    (pc \in {"fit_loop", "fit_done"} /\ adf_result = "p_le_005") =>
        /\ d = 0
        /\ ts = original_ts
        /\ C17_PreparedAgain = <<ts, d>>
        /\ \A j \in 1..Len(param_combinations) : param_combinations[j][2] = 0

\* C17 witness: a series judged stationary that differencing would change,
\* left as it was passed in with d = 0.
C17_Witness ==
    /\ pc = "fit_loop"
    /\ adf_result = "p_le_005"
    /\ impl = "single"
    /\ Len(original_ts) >= 3
    /\ \E i \in 1..Len(Diff(original_ts)) : Diff(original_ts)[i] # original_ts[i]
    /\ ts = original_ts
    /\ d = 0

(***************************************************************************)
(* Claims about the forecasters (checked under SpecForecast)               *)
(***************************************************************************)
SalesReturned ==
    impl = "single" /\ pc \in {"return_101", "return_139", "return_166", "return_192"}

ProductReturned ==
    impl = "batch" /\ pc \in {"return_66", "return_75", "return_85", "return_94"}

\* the forecast sequence of a returned result
ForecastValues ==
    IF impl = "single" THEN forecast_result.forecast_demand ELSE forecast_result.forecast

\* the number of observations the forecaster was given
Observations == IF impl = "single" THEN Len(product_data) ELSE Len(monthly_sales)

\* C2: every forecast result that is returned, by forecast_product_sales in
\* any tier and by forecast_product in its ARIMA, moving_average and
\* exception-fallback branches, holds only values >= 0, for every input series.
C2_ForecastNonNegative ==
    ((SalesReturned \/ ProductReturned) /\ forecast_result # None) =>
        \A i \in 1..Len(ForecastValues) : ForecastValues[i][1] >= 0

\* C3 as stated: with fewer than 3 observations forecasting returns None, and
\* a series of 3 or more observations is not refused.
C3_FloorIsThree ==
    (SalesReturned \/ ProductReturned) =>
        (forecast_result = None <=> Observations < 3)

\* C3 amended: forecast_product_sales returns None for fewer than 3 rows,
\* before any tier is attempted, and never refuses 3 or more rows for their
\* number; forecast_product returns None for fewer than 6 observations, so a
\* series of fewer than 3 is refused, and one of 3, 4 or 5 is refused as well.
C3_FloorPerForecaster ==
    /\ SalesReturned =>
          /\ forecast_result = None <=> Observations < 3
          /\ Observations < 3 =>
                /\ pc = "return_101"
                /\ daily_sales = << >>
                /\ fit_return = None
                /\ forecast_call = "not_called"
    /\ ProductReturned =>
          /\ forecast_result = None <=> Observations < 6
          /\ Observations < 6 =>
                /\ pc = "return_66"
                /\ fit_return = None
                /\ forecast_call = "not_called"

\* C3 witness: forecast_product refuses a series of 3 to 5 observations.
C3_Witness ==
    /\ ProductReturned
    /\ Observations >= 3
    /\ Observations < 6
    /\ forecast_result = None

RECURSIVE C4_SumFrom(_, _)
C4_SumFrom(s, lo) == IF lo > Len(s) THEN 0 ELSE s[lo] + C4_SumFrom(s, lo + 1)

\* the mean of the most recent min(30, N) observations of the daily series
C4_RecentMean ==
    LET n == Len(daily_sales)
        w == IF n < 30 THEN n ELSE 30
    IN  <<C4_SumFrom(daily_sales, n - w + 1), w>>

C4_AllMean == <<C4_SumFrom(daily_sales, 1), Len(daily_sales)>>

C4_Applies == SalesReturned /\ Len(daily_sales) >= 6

C4_ArimaAvailable == fit_return # None /\ forecast_call = "returned"

C4_IsCopiesOf(x) ==
    /\ Len(forecast_result.forecast_demand) = days_ahead
    /\ \A i \in 1..days_ahead : RatEq(forecast_result.forecast_demand[i], x)

C4_Value(x, clamp) == IF clamp /\ x[1] < 0 THEN <<0, 1>> ELSE x

C4_Chain(clamp) ==
    C4_Applies =>
        IF C4_ArimaAvailable
        THEN forecast_result.method = "ARIMA" /\ forecast_result.confidence_score = 85
        ELSE IF Len(daily_sales) >= 7
        THEN /\ forecast_result.method = "weighted_average"
             /\ forecast_result.confidence_score = 70
             /\ C4_IsCopiesOf(C4_Value(C4_RecentMean, clamp))
        ELSE /\ forecast_result.method = "moving_average"
             /\ forecast_result.confidence_score = 68
             /\ C4_IsCopiesOf(C4_Value(C4_AllMean, clamp))

\* C4 as stated: for a gap-filled series of N >= 6 periods the result is ARIMA
\* with confidence 85 exactly when selection yields a candidate and the
\* forecast is generated; otherwise weighted_average, 70 and horizon copies
\* of the mean of the most recent min(30, N) observations when N >= 7;
\* otherwise moving_average, 68 and horizon copies of the mean of all.
C4_FallbackChainOfMeans == C4_Chain(FALSE)

\* C4 amended: the same chain, the repeated value being max(0, mean): a
\* negative mean is forecast as 0.
C4_FallbackChainOfClampedMeans == C4_Chain(TRUE)

\* C4 witness: a series longer than 30 periods for which no ARIMA forecast
\* exists; the weighted average is the positive mean of the last 30 periods,
\* which differs from the mean of the whole series.
C4_Witness ==
    /\ C4_Applies
    /\ ~C4_ArimaAvailable
    /\ Len(daily_sales) > 30
    /\ forecast_result.method = "weighted_average"
    /\ C4_RecentMean[1] > 0
    /\ ~RatEq(C4_RecentMean, C4_AllMean)
    /\ RatEq(forecast_result.forecast_demand[days_ahead], C4_RecentMean)

\* the number of periods of the gap-filled daily series, from the rows
C5_Periods == MaxDay(product_data) - MinDay(product_data) + 1

\* C5 as stated: a product with at least 3 and fewer than 6 raw observations
\* gets method intelligent_average with confidence 65.
C5_FewRowsGetIntelligentAverage ==
    (SalesReturned /\ Observations >= 3 /\ Observations < 6) =>
        /\ forecast_result.method = "intelligent_average"
        /\ forecast_result.confidence_score = 65

\* C5 amended: a product with at least 3 raw observations gets method
\* intelligent_average, with confidence 65, exactly when its gap-filled
\* daily series (first to last transaction date) has fewer than 6 periods;
\* rows spread over 6 or more days go through the ARIMA chain, however few.
C5_ShortSpanGetsIntelligentAverage ==
    (SalesReturned /\ Observations >= 3) =>
        /\ C5_Periods < 6 <=> forecast_result.method = "intelligent_average"
        /\ C5_Periods < 6 =>
              /\ forecast_result.confidence_score = 65
              /\ pc = "return_192"
              /\ fit_return = None

\* C5 witness: 3 to 5 rows within fewer than 6 days.
C5_Witness ==
    /\ SalesReturned
    /\ Observations >= 3
    /\ Observations < 6
    /\ C5_Periods > 1
    /\ C5_Periods < 6
    /\ forecast_result.method = "intelligent_average"
    /\ forecast_result.confidence_score = 65

\* C13: every forecast result carries a method tag that is one of ARIMA,
\* weighted_average, moving_average, intelligent_average; neither
\* forecast_product_sales nor forecast_product returns another tag on any
\* path, model-fit or forecast-generation failure included.
C13_MethodTags ==
    ((SalesReturned \/ ProductReturned) /\ forecast_result # None) =>
        forecast_result.method \in
            {"ARIMA", "weighted_average", "moving_average", "intelligent_average"}

\* the rows' quantities are all non-negative
C19_NonNegative == \A i \in 1..Len(product_data) : product_data[i].qty >= 0

C19_TotalQuantity == C4_SumFrom([i \in 1..Len(product_data) |-> product_data[i].qty], 1)

\* the days of the gap-filled span on which the product sold
C19_ActiveDays ==
    Cardinality({x \in RowDays(product_data) : DaySum(product_data, x) > 0})

\* the intelligent-average tier answered, from non-negative quantities with
\* at least one active day
C19_Applies ==
    /\ SalesReturned
    /\ forecast_result # None
    /\ forecast_result.method = "intelligent_average"
    /\ C19_NonNegative
    /\ C19_ActiveDays >= 1

\* (transactions / elapsed days) * (total quantity / transactions)
C19_RateBased ==
    <<Len(product_data) * C19_TotalQuantity, C5_Periods * Len(product_data)>>

\* C19: in the intelligent-average tier with non-negative quantities and at
\* least one active day, the rate-based estimate equals total quantity /
\* elapsed days and never exceeds the active-day mean total quantity / active
\* days; the reported avg_daily_demand equals the active-day mean.
C19_RateBasedNeverExceedsActiveMean ==
    C19_Applies =>
        /\ RatEq(C19_RateBased, <<C19_TotalQuantity, C5_Periods>>)
        /\ ~RatLess(<<C19_TotalQuantity, C19_ActiveDays>>, C19_RateBased)
        /\ RatEq(forecast_result.avg_daily_demand, <<C19_TotalQuantity, C19_ActiveDays>>)
        /\ \A i \in 1..days_ahead :
              RatEq(forecast_result.forecast_demand[i], <<C19_TotalQuantity, C19_ActiveDays>>)

\* C19 witness: rows on fewer days than the span covers, so that the
\* rate-based estimate is strictly below the active-day mean.
C19_Witness ==
    /\ C19_Applies
    /\ C19_ActiveDays < C5_Periods
    /\ Len(product_data) > C19_ActiveDays
    /\ RatLess(C19_RateBased, <<C19_TotalQuantity, C19_ActiveDays>>)
    /\ RatEq(forecast_result.avg_daily_demand, <<C19_TotalQuantity, C19_ActiveDays>>)

\* forecast_product_sales has ended, at any of its return statements
C14_Ended ==
    /\ impl = "single"
    /\ pc \in {"return_101", "return_139", "return_166", "return_192", "return_201"}

\* some step of the call failed: an exception reached line 200, adfuller
\* raised, every candidate failed to fit, or model.forecast raised
C14_SomeStepFailed ==
    \/ pc = "return_201"
    \/ adf_result = "raises"
    \/ adf_result # "not_run" /\ fit_return = None
    \/ forecast_call = "raised"

C14_LowerConfidenceFallback ==
    /\ forecast_result # None
    /\ forecast_result.method \in {"weighted_average", "moving_average", "intelligent_average"}
    /\ forecast_result.confidence_score < 85

\* C14 as stated: whichever step fails (reading or parsing the data,
\* converting the product id, stationarity test, any candidate fit, forecast
\* generation), the call ends either with a fallback result of lower
\* confidence or with None.
C14_FailureEndsInFallbackOrNone ==
    (C14_Ended /\ C14_SomeStepFailed) =>
        forecast_result = None \/ C14_LowerConfidenceFallback

\* C14 amended: forecast_product_sales never propagates a fault: the call
\* always ends at a return statement with None or a forecast result.  An
\* exception that reaches line 200 ends it with None; a forecast generation
\* that fails, or a selection in which every candidate fails, ends it with a
\* fallback result of lower confidence; a failing stationarity test is taken
\* as non-stationary (the series is differenced) and selection goes on, so
\* that the call may still end with an ARIMA result of confidence 85.
C14_FaultsAreAbsorbed ==
    /\ impl = "single" =>
          pc \in {"sales_call", "sales_loaded", "sales_fitted", "return_101",
                  "return_139", "return_166", "return_192", "return_201"}
    /\ C14_Ended =>
          /\ forecast_result = None \/ forecast_result.tag = "forecast"
          /\ pc = "return_201" => forecast_result = None
          /\ (pc # "return_201" /\ forecast_call = "raised") => C14_LowerConfidenceFallback
          /\ (pc # "return_201" /\ adf_result # "not_run" /\ fit_return = None) =>
                C14_LowerConfidenceFallback
          /\ (adf_result = "raises" /\ fit_return # None) => fit_return.params[2] = 1
          /\ (forecast_result # None /\ forecast_result.method = "ARIMA") =>
                /\ fit_return # None
                /\ forecast_call = "returned"
                /\ forecast_result.confidence_score = 85

\* C14 witness: adfuller raised, the differenced series was fitted and the
\* call ended with an ARIMA result of confidence 85.
C14_Witness ==
    /\ C14_Ended
    /\ adf_result = "raises"
    /\ fit_return # None
    /\ fit_return.params[2] = 1
    /\ forecast_result # None
    /\ forecast_result.method = "ARIMA"
    /\ forecast_result.confidence_score = 85

(***************************************************************************)
(* Claims about the callers (checked under SpecDrivers)                    *)
(***************************************************************************)
InBatch == pc \in {"batch_loop", "batch_done", "batch_raised"}

\* C15: in predict_all_products a product whose forecast is unavailable or
\* whose processing raises is skipped without aborting the batch: the
\* products are visited once each in order, after each visit successful +
\* failed equals the number of products visited, the number of stored
\* results equals successful, and the summary is reached.
C15_BatchCountsEveryProductOnce ==
    InBatch =>
        /\ product_idx <= Len(unique_products)
        /\ successful + failed = product_idx
        /\ Len(results) = successful
        /\ \A i \in 1..Len(results) : results[i].product_id <= product_idx
        /\ \A i \in 1..(Len(results) - 1) : results[i].product_id < results[i + 1].product_id
        /\ pc # "batch_loop" => product_idx = Len(unique_products)

InMain == pc \in {"main_call", "main_forecast", "main_exit"}

C16_ArgumentsRead == \A i \in 2..Len(argv) : IsInt(argv[i])

C16_AllFields == {"success", "product_id", "forecast", "restock", "prediction_method"}

\* C16 as stated: a single-product invocation prints exactly one JSON object;
\* without a product_id it is an error object, the exit status is non-zero
\* and no forecast is attempted; with a product_id (current_stock defaulting
\* to 0, reorder_level to 10) the object contains all of success, product_id,
\* forecast, restock and prediction_method.
C16_MainPrintsAllFields ==
    (pc = "main_exit" /\ C16_ArgumentsRead) =>
        /\ Len(printed) = 1
        /\ Len(argv) < 1 =>
              /\ "error" \in DOMAIN printed[1]
              /\ exit_status # <<0>>
              /\ forecast_result = None
        /\ Len(argv) >= 1 => C16_AllFields \subseteq DOMAIN printed[1]

\* C16 amended: without a product_id the invocation prints one error object
\* and exits with status 1 without attempting a forecast.  With a product_id
\* and optional arguments that read as integers (current_stock defaulting to
\* 0, reorder_level to 10) it prints exactly one object and exits with status
\* 0: when the forecast is available the object holds success = true,
\* product_id, forecast, restock and prediction_method; when it is not, the
\* object holds success = false, error and product_id only.  An optional
\* argument that does not read as an integer ends the process with a
\* non-zero status and nothing printed.
C16_MainPrintsOneObjectPerOutcome ==
    /\ (InMain /\ pc # "main_exit") => printed = << >> /\ exit_status = << >>
    /\ pc = "main_exit" =>
          IF Len(argv) < 1
          THEN /\ printed = << [error |-> "Product ID required"] >>
               /\ exit_status = <<1>>
               /\ forecast_result = None
               /\ restock_data = None
          ELSE IF ~C16_ArgumentsRead
          THEN /\ printed = << >>
               /\ exit_status = <<1>>
               /\ forecast_result = None
          ELSE /\ Len(printed) = 1
               /\ exit_status = <<0>>
               /\ current_stock = IF Len(argv) > 1 THEN argv[2].int[1] ELSE 0
               /\ reorder_level = IF Len(argv) > 2 THEN argv[3].int[1] ELSE 10
               /\ printed[1].product_id = argv[1].text
               /\ IF forecast_result # None
                  THEN /\ DOMAIN printed[1] = C16_AllFields
                       /\ printed[1].success = TRUE
                       /\ printed[1].forecast = forecast_result
                       /\ printed[1].restock = restock_data
                       /\ restock_data # None
                       /\ restock_data.current_stock = current_stock
                  ELSE /\ DOMAIN printed[1] = {"success", "error", "product_id"}
                       /\ printed[1].success = FALSE

\* C16 witness: only the product id is given, the forecast is available and
\* the object printed holds the five fields, the restock computed from
\* current_stock 0 and reorder_level 10.
C16_Witness ==
    /\ pc = "main_exit"
    /\ Len(argv) = 1
    /\ forecast_result # None
    /\ Len(printed) = 1
    /\ DOMAIN printed[1] = C16_AllFields
    /\ printed[1].restock.current_stock = 0
    /\ printed[1].restock.suggested_quantity >= 10
    /\ exit_status = <<0>>

\* the successful output records: those printed by __main__ and those stored
\* by predict_all_products
C20_Records ==
    {printed[i] : i \in {j \in 1..Len(printed) : "success" \in DOMAIN printed[j]}}
    \cup {results[i] : i \in 1..Len(results)}

\* C20: in every successful output record, single-product or batch, the
\* top-level prediction_method is 'ARIMA' only if the embedded forecast's
\* method tag is 'ARIMA'.
C20_ArimaOnlyForArimaForecasts ==
    \A r \in C20_Records :
        (r.success /\ r.prediction_method = "ARIMA") => r.forecast.method = "ARIMA"

====
